---- MODULE Spec2Model ----
(***************************************************************************)
(* Geenie core risk engine (src/app.py): the Streamlit script as a state   *)
(* machine.  One run of the script is the chain                            *)
(*   load_csv -> window/price_series -> metrics -> regime -> stress ->     *)
(*   Monte Carlo (one step per horizon) -> coverage,                       *)
(* and Streamlit re-runs the script in the same process, so the global     *)
(* numpy random generator survives from one run to the next.               *)
(*                                                                         *)
(* float64 values are modelled as fixed-point decimals with Scale units    *)
(* per 1.0, saturating to +/-Inf beyond MaxFloat, with NaN.                *)
(***************************************************************************)
EXTENDS Integers, Sequences, FiniteSets, TLC

\* ------------------------------------------------------------------ bounds
Scale ==
    1000
MaxFloat ==
    2000000
MaxRows ==
    4
ShortRows ==
    2
DetectRows ==
    3
MaxRuns ==
    2
NumSims ==
    3
MaxDays ==
    2
RollWindow ==
    2

\* ------------------------------------------------------- float64 arithmetic
NaN == [k |-> "nan", v |-> 0]
PosInf == [k |-> "inf", v |-> 1]
NegInf == [k |-> "inf", v |-> -1]

Abs(x) == IF x < 0 THEN -x ELSE x
Sgn(x) == IF x > 0 THEN 1 ELSE IF x < 0 THEN -1 ELSE 0

\* division rounding toward zero, as the sign-symmetric float division does
TDiv(a, b) == Sgn(a) * Sgn(b) * (Abs(a) \div Abs(b))

Num(x) ==
    IF x > MaxFloat THEN PosInf
    ELSE IF x < -MaxFloat THEN NegInf
    ELSE [k |-> "num", v |-> x]

Zero == Num(0)
One == Num(Scale)

IsNaN(a) == a.k = "nan"
IsNum(a) == a.k = "num"

FNeg(a) == [k |-> a.k, v |-> -a.v]

FAdd(a, b) ==
    IF IsNaN(a) \/ IsNaN(b) THEN NaN
    ELSE IF a.k = "inf" THEN (IF b.k = "inf" /\ b.v # a.v THEN NaN ELSE a)
    ELSE IF b.k = "inf" THEN b
    ELSE Num(a.v + b.v)

FSub(a, b) == FAdd(a, FNeg(b))

\* |x * y / Scale| without leaving the integer range: saturates first
MulFits(x, y) ==
    \/ x = 0
    \/ y = 0
    \/ Abs(y) <= (MaxFloat * Scale) \div Abs(x)

FMul(a, b) ==
    IF IsNaN(a) \/ IsNaN(b) THEN NaN
    ELSE IF a.k = "inf" \/ b.k = "inf"
         THEN (IF Sgn(a.v) * Sgn(b.v) = 0 THEN NaN
               ELSE IF Sgn(a.v) * Sgn(b.v) > 0 THEN PosInf ELSE NegInf)
    ELSE IF MulFits(a.v, b.v)
         THEN Num(Sgn(a.v) * Sgn(b.v)
                  * ((Abs(a.v) \div Scale) * Abs(b.v)
                     + ((Abs(a.v) % Scale) * Abs(b.v)) \div Scale))
    ELSE IF Sgn(a.v) * Sgn(b.v) > 0 THEN PosInf ELSE NegInf

FDiv(a, b) ==
    IF IsNaN(a) \/ IsNaN(b) THEN NaN
    ELSE IF a.k = "inf"
         THEN (IF b.k = "inf" THEN NaN
               ELSE IF Sgn(a.v) * Sgn(b.v) < 0 THEN NegInf ELSE PosInf)
    ELSE IF b.k = "inf" THEN Zero
    ELSE IF b.v = 0
         THEN (IF a.v = 0 THEN NaN ELSE IF a.v > 0 THEN PosInf ELSE NegInf)
    ELSE Num(Sgn(a.v) * Sgn(b.v) * ((Abs(a.v) * Scale) \div Abs(b.v)))

\* comparisons: every comparison with NaN is false
FLt(a, b) ==
    /\ ~IsNaN(a)
    /\ ~IsNaN(b)
    /\ IF a.k = "inf" THEN a.v < 0 /\ ~(b.k = "inf" /\ b.v < 0)
       ELSE IF b.k = "inf" THEN b.v > 0
       ELSE a.v < b.v

FEq(a, b) == ~IsNaN(a) /\ ~IsNaN(b) /\ a = b
FLe(a, b) == FLt(a, b) \/ FEq(a, b)
FGt(a, b) == FLt(b, a)

\* --------------------------------------------------------- the uploaded CSV
\* A cell of the CSV text: a date string, a number, some other text, or empty.
DateCell(d) == [k |-> "date", v |-> d]
NumCell(x) == [k |-> "num", v |-> x]
TextCell == [k |-> "text", v |-> 0]
NaCell == [k |-> "na", v |-> 0]

\* ticks (nanoseconds in pandas) per calendar day, scaled down
NsPerDay ==
    1000

NRows(file) == IF Len(file) = 0 THEN 0 ELSE Len(file[1])

\* pd.to_datetime(df[col], errors="raise"): any unparseable cell raises
ToDatetimeRaises(col) == \E i \in 1..Len(col) : col[i].k = "text"

\* parsed.notna().sum(): empty cells parse to NaT
NotNaCount(col) == Cardinality({i \in 1..Len(col) : col[i].k \in {"date", "num"}})

\* lines 34-40: the try body reaches "date_col = col"
Qualifies(col) == ~ToDatetimeRaises(col) /\ 2 * NotNaCount(col) > Len(col)

\* lines 32-40: the first column that qualifies, 0 for None
date_col(file) ==
    IF \E c \in 1..Len(file) : Qualifies(file[c])
    THEN CHOOSE c \in 1..Len(file) :
            /\ Qualifies(file[c])
            /\ \A b \in 1..(c - 1) : ~Qualifies(file[b])
    ELSE 0

\* pandas dtype of a parsed column: numeric iff no cell is a string
IsNumeric(col) == Len(col) > 0 /\ \A i \in 1..Len(col) : col[i].k \in {"num", "na"}

\* line 48: the numeric columns left once the date column became the index
RECURSIVE NumericFrom(_, _, _)
NumericFrom(file, dc, c) ==
    IF c > Len(file) THEN <<>>
    ELSE IF c # dc /\ IsNumeric(file[c])
         THEN <<c>> \o NumericFrom(file, dc, c + 1)
    ELSE NumericFrom(file, dc, c + 1)

price_cols_of(file) == NumericFrom(file, date_col(file), 1)

CellFloat(cell) == IF cell.k = "num" THEN Num(cell.v * Scale) ELSE NaN

\* line 44: the timestamp of a parsed cell (a number is read as epoch ticks)
CellRow(file, dc, pcs, i) ==
    [nat |-> file[dc][i].k = "na",
     ts |-> IF file[dc][i].k = "date" THEN file[dc][i].v * NsPerDay
            ELSE IF file[dc][i].k = "num" THEN file[dc][i].v ELSE 0,
     vals |-> [j \in 1..Len(pcs) |-> CellFloat(file[pcs[j]][i])]]

\* index order of sort_index: ascending, NaT last; rows of one date keep the
\* order of the file
RowLe(a, b) == IF a.nat THEN b.nat ELSE (b.nat \/ a.ts <= b.ts)

RECURSIVE InsertRow(_, _)
InsertRow(sorted, r) ==
    IF Len(sorted) = 0 THEN <<r>>
    ELSE IF RowLe(sorted[Len(sorted)], r) THEN Append(sorted, r)
    ELSE Append(InsertRow(SubSeq(sorted, 1, Len(sorted) - 1), r), sorted[Len(sorted)])

RECURSIVE SortRows(_, _)
SortRows(rows, i) ==
    IF i = 0 THEN <<>> ELSE InsertRow(SortRows(rows, i - 1), rows[i])

\* line 45: set_index(date_col).sort_index()
sort_index(rows) == SortRows(rows, Len(rows))

\* lines 28-52
load_csv(file) ==
    LET dc == date_col(file)
        pcs == price_cols_of(file)
    IN  IF dc = 0 THEN [err |-> "NoDateColumn", df |-> <<>>, price_cols |-> <<>>]
        ELSE IF Len(pcs) = 0 THEN [err |-> "NoPriceColumn", df |-> <<>>, price_cols |-> <<>>]
        ELSE [err |-> "",
              df |-> sort_index([i \in 1..NRows(file) |-> CellRow(file, dc, pcs, i)]),
              price_cols |-> pcs]

\* ------------------------------------------------ window and price series
\* .date() of a timestamp, as a timestamp again (lines 67-68, 77-78)
DayOf(ts) == (ts \div NsPerDay) * NsPerDay

IndexTs(rows) == {rows[i].ts : i \in {j \in 1..Len(rows) : ~rows[j].nat}}
SetMin(S) == CHOOSE x \in S : \A y \in S : x <= y
SetMax(S) == CHOOSE x \in S : \A y \in S : y <= x

\* lines 67-68: index.min() / index.max() skip NaT
min_date(rows) == DayOf(SetMin(IndexTs(rows)))
max_date(rows) == DayOf(SetMax(IndexTs(rows)))

\* line 80: df.loc[start_date:end_date], both ends included; NaT rows sort
\* after every timestamp and fall outside every window
InWindow(r, s, e) == ~r.nat /\ s <= r.ts /\ r.ts <= e
loc_window(rows, s, e) == SelectSeq(rows, LAMBDA r : InWindow(r, s, e))

\* line 83: dropna() keeps the rows with a value in every price column
RowComplete(r) == \A j \in 1..Len(r.vals) : ~IsNaN(r.vals[j])
dropna_rows(rows) == SelectSeq(rows, RowComplete)

RECURSIVE FSumTo(_, _)
FSumTo(xs, i) == IF i = 0 THEN Zero ELSE FAdd(FSumTo(xs, i - 1), xs[i])
FSum(xs) == FSumTo(xs, Len(xs))

\* Series.mean(): NaN for an empty series
FMean(xs) == IF Len(xs) = 0 THEN NaN ELSE FDiv(FSum(xs), Num(Len(xs) * Scale))

\* lines 84-89: the single column, or the equal-weighted row mean
price_series_of(rows, pcs) ==
    LET kept == dropna_rows(rows)
    IN  [i \in 1..Len(kept) |->
            [ts |-> kept[i].ts,
             v |-> IF Len(pcs) = 1 THEN kept[i].vals[1] ELSE FMean(kept[i].vals)]]

Vals(series) == [i \in 1..Len(series) |-> series[i].v]

\* ------------------------------------------------------ core risk metrics
\* pct_change(): element i is price[i] / price[i-1] - 1, the first is NaN
pct_change(series) ==
    [i \in 1..Len(series) |->
        [ts |-> series[i].ts,
         v |-> IF i = 1 THEN NaN
               ELSE FSub(FDiv(series[i].v, series[i - 1].v), One)]]

dropna_series(series) == SelectSeq(series, LAMBDA e : ~IsNaN(e.v))

\* line 94
returns_of(series) == dropna_series(pct_change(series))

RECURSIVE ISqrtIn(_, _, _)
ISqrtIn(n, lo, hi) ==
    IF lo >= hi THEN lo
    ELSE LET mid == (lo + hi + 1) \div 2
         IN  IF mid <= n \div mid THEN ISqrtIn(n, mid, hi) ELSE ISqrtIn(n, lo, mid - 1)
ISqrt(n) == IF n <= 0 THEN 0 ELSE ISqrtIn(n, 1, n)

FSqrt(a) ==
    IF IsNaN(a) THEN NaN
    ELSE IF a.k = "inf" THEN (IF a.v > 0 THEN PosInf ELSE NaN)
    ELSE IF a.v < 0 THEN NaN
    ELSE Num(ISqrt(a.v * Scale))

FSq(a) == FMul(a, a)

\* Series.std(): sample standard deviation (ddof = 1), NaN below 2 values
FStd(xs) ==
    IF Len(xs) < 2 THEN NaN
    ELSE LET m == FMean(xs)
             sq == [i \in 1..Len(xs) |-> FSq(FSub(xs[i], m))]
         IN  FSqrt(FDiv(FSum(sq), Num((Len(xs) - 1) * Scale)))

TradingDays ==
    252

RECURSIVE FPow(_, _)
FPow(a, n) ==
    IF n = 0 THEN One
    ELSE IF n % 2 = 0 THEN FSq(FPow(a, n \div 2))
    ELSE FMul(a, FPow(a, n - 1))

Sqrt252 == FSqrt(Num(TradingDays * Scale))

\* line 95
annual_return_of(rets) == FSub(FPow(FAdd(One, FMean(Vals(rets))), TradingDays), One)
\* line 96
annual_volatility_of(rets) == FMul(FStd(Vals(rets)), Sqrt252)

FMax(a, b) == IF IsNaN(a) THEN b ELSE IF IsNaN(b) THEN a ELSE IF FLt(a, b) THEN b ELSE a
FMin(a, b) == IF IsNaN(a) THEN b ELSE IF IsNaN(b) THEN a ELSE IF FLt(b, a) THEN b ELSE a

\* Series.cummax(): the running maximum
RECURSIVE cummax(_, _)
cummax(xs, i) == IF i = 1 THEN xs[1] ELSE FMax(cummax(xs, i - 1), xs[i])

\* line 98
drawdown_of(series) ==
    [i \in 1..Len(series) |->
        [ts |-> series[i].ts,
         v |-> FSub(FDiv(series[i].v, cummax(Vals(series), i)), One)]]

\* Series.min() skips NaN; NaN for an empty series
RECURSIVE FMinTo(_, _)
FMinTo(xs, i) == IF i = 0 THEN NaN ELSE FMin(FMinTo(xs, i - 1), xs[i])
\* line 99
max_drawdown_of(dd) == FMinTo(Vals(dd), Len(dd))

\* line 100
down_days_pct_of(rets) ==
    IF Len(rets) = 0 THEN NaN
    ELSE FMul(FDiv(Num(Cardinality({i \in 1..Len(rets) : FLt(rets[i].v, Zero)}) * Scale),
                   Num(Len(rets) * Scale)),
              Num(100 * Scale))

\* --------------------------------------------- rolling volatility, regimes
High == "High Volatility"
Low == "Low Volatility"

\* rolling(w): a window holding an infinite value counts as not full
WindowFull(xs, i, w) ==
    /\ i >= w
    /\ \A j \in (i - w + 1)..i : IsNum(xs[j])

\* line 105: rolling std of the trailing window, annualised; NaN until full
rolling_vol_of(rets, w) ==
    [i \in 1..Len(rets) |->
        IF WindowFull(Vals(rets), i, w)
        THEN FMul(FStd(SubSeq(Vals(rets), i - w + 1, i)), Sqrt252)
        ELSE NaN]

RECURSIVE FInsert(_, _)
FInsert(sorted, x) ==
    IF Len(sorted) = 0 THEN <<x>>
    ELSE IF FLe(sorted[Len(sorted)], x) THEN Append(sorted, x)
    ELSE Append(FInsert(SubSeq(sorted, 1, Len(sorted) - 1), x), sorted[Len(sorted)])

RECURSIVE FSortTo(_, _)
FSortTo(xs, i) == IF i = 0 THEN <<>> ELSE FInsert(FSortTo(xs, i - 1), xs[i])
FSort(xs) == FSortTo(xs, Len(xs))

\* Series.median(): over the defined values, NaN when there is none
FMedian(xs) ==
    LET d == FSort(SelectSeq(xs, LAMBDA x : ~IsNaN(x)))
        n == Len(d)
    IN  IF n = 0 THEN NaN
        ELSE IF n % 2 = 1 THEN d[(n + 1) \div 2]
        ELSE FDiv(FAdd(d[n \div 2], d[n \div 2 + 1]), Num(2 * Scale))

\* line 107: np.where(rolling_vol > vol_threshold, High, Low)
regime_of(rv, thr) == [i \in 1..Len(rv) |-> IF FGt(rv[i], thr) THEN High ELSE Low]

\* regime_rows without the dropna(): the rows before the window is full stay
regime_rows_without_dropna(rets, rv, reg) == 1..Len(rets)

\* line 108: the rows of the frame that dropna() keeps
regime_rows(rets, rv, reg) ==
    {i \in 1..Len(rets) : ~IsNaN(rets[i].v) /\ ~IsNaN(rv[i])}

RECURSIVE PickSeq(_, _, _)
PickSeq(xs, I, i) ==
    IF i > Len(xs) THEN <<>>
    ELSE IF i \in I THEN <<xs[i]>> \o PickSeq(xs, I, i + 1)
    ELSE PickSeq(xs, I, i + 1)

\* line 109: groupby("Regime")["Returns"].agg(["mean", "std", "count"]);
\* a label without rows has no entry
regime_stats_of(rets, rv, reg) ==
    LET rows == regime_rows(rets, rv, reg)
        labels == {reg[i] : i \in rows}
    IN  [l \in labels |->
            LET grp == PickSeq(Vals(rets), {i \in rows : reg[i] = l}, 1)
            IN  [mean |-> FMean(grp), std |-> FStd(grp), count |-> Len(grp)]]

\* ------------------------------------------------------------ stress periods
\* the literal -0.3 of line 114
StressThreshold == Num(-((3 * Scale) \div 10))

\* stress_periods_of with <= in place of <
stress_periods_inclusive(dd) == SelectSeq(dd, LAMBDA e : FLe(e.v, StressThreshold))

\* line 114: drawdown[drawdown < -0.3]
stress_periods_of(dd) == SelectSeq(dd, LAMBDA e : FLt(e.v, StressThreshold))

\* -------------------------------------------------------------- Monte Carlo
\* the process-wide generator behind np.random: a congruential state
NextRng(s) == (5 * s + 3) % 16

\* the standard normal deviate drawn in state s
Gauss(s) == Num(((s % 3) - 1) * Scale)

RECURSIVE RngAfter(_, _)
RngAfter(s, n) == IF n = 0 THEN s ELSE RngAfter(NextRng(s), n - 1)

\* normal with the deviate added to the scale instead of multiplied by it
normal_unscaled(mu, sigma, s, d) == FAdd(mu, FAdd(sigma, Gauss(RngAfter(s, d - 1))))

\* line 194: np.random.normal(mean_return, vol, days)[d], drawn from state s
normal(mu, sigma, s, d) == FAdd(mu, FMul(sigma, Gauss(RngAfter(s, d - 1))))

\* line 195: last_price * np.cumprod(1 + simulated_returns), entry d
RECURSIVE cumprod(_, _, _, _)
cumprod(mu, sigma, s, d) ==
    IF d = 0 THEN One
    ELSE FMul(cumprod(mu, sigma, s, d - 1), FAdd(One, normal(mu, sigma, s, d)))

\* lines 192-198: all_paths[k][d] when the loop starts in generator state s
all_paths_of(last, mu, sigma, days, sims, s) ==
    [k \in 1..sims |->
        [d \in 1..days |-> FMul(last, cumprod(mu, sigma, RngAfter(s, (k - 1) * days), d))]]

\* np.percentile(column, q), linear interpolation between order statistics
percentile(col, q) ==
    IF \E i \in 1..Len(col) : IsNaN(col[i]) THEN NaN
    ELSE LET srt == FSort(col)
             n == Len(srt)
             pos == q * (n - 1)
             lo == pos \div 100 + 1
             hi == IF lo < n THEN lo + 1 ELSE n
             t == Num(((pos % 100) * Scale) \div 100)
             diff == FSub(srt[hi], srt[lo])
         IN  IF (pos % 100) * 2 >= 100
             THEN FSub(srt[hi], FMul(diff, FSub(One, t)))
             ELSE FAdd(srt[lo], FMul(diff, t))

Column(paths, d) == [k \in 1..Len(paths) |-> paths[k][d]]

\* lines 199-201
band_of(paths, days) ==
    [p5 |-> [d \in 1..days |-> percentile(Column(paths, d), 5)],
     p50 |-> [d \in 1..days |-> percentile(Column(paths, d), 50)],
     p95 |-> [d \in 1..days |-> percentile(Column(paths, d), 95)]]

\* lines 184-189, the horizons scaled down
forecast_horizons == <<1, MaxDays>>

\* ------------------------------------------------------- the uploaded files
LongVals == {6, 7, 10}
PriceVals == {-20, -10, 0, 7, 10}
CleanCells == {NumCell(x) : x \in LongVals}
PriceCells == {NumCell(x) : x \in PriceVals} \cup {NaCell}

\* date columns: in order, in reverse order, and with a repeated date
DateOrders(n) ==
    {[i \in 1..n |-> DateCell(i)],
     [i \in 1..n |-> DateCell(n + 1 - i)],
     [i \in 1..n |-> DateCell(IF i = 1 THEN 1 ELSE i - 1)]}

\* short files with anything in them: unsorted or repeated dates, empty cells
ShortFiles ==
    UNION {{<<dc, pc>> : dc \in DateOrders(n), pc \in [1..n -> PriceCells]} :
           n \in 0..ShortRows}

\* longer files with one positive price on every day
LongFiles ==
    UNION {{<<[i \in 1..n |-> DateCell(i)], pc>> : pc \in [1..n -> CleanCells]} :
           n \in (ShortRows + 1)..MaxRows}

\* two price columns
TwoColumnFiles ==
    UNION {{<<[i \in 1..n |-> DateCell(i)], p1, p2>> :
                p1 \in [1..n -> {NaCell, NumCell(7), NumCell(10)}],
                p2 \in [1..n -> {NaCell, NumCell(10)}]} :
           n \in 1..ShortRows}

\* two candidate date columns before the price column
DetectFiles ==
    {<<c1, c2, [i \in 1..DetectRows |-> NumCell(10)]>> :
        c1 \in [1..DetectRows -> {"date", "text", "na"}],
        c2 \in {"date", "text"}}

MakeDetect(f) ==
    <<[i \in 1..DetectRows |->
          IF f[1][i] = "date" THEN DateCell(i)
          ELSE IF f[1][i] = "text" THEN TextCell ELSE NaCell],
      [i \in 1..DetectRows |->
          IF f[2] = "date" THEN DateCell(DetectRows + 1 - i) ELSE TextCell],
      f[3]>>

Files == ShortFiles \cup LongFiles \cup TwoColumnFiles \cup {MakeDetect(f) : f \in DetectFiles}

Seeds == {0, 1}

\* -------------------------------------------------------------------- state
VARIABLES
    pc,               \* the statement the script is at
    run,              \* how many times the script has started
    uploaded_file,    \* <<>> until a CSV is uploaded
    rng,              \* state of the process-wide np.random generator
    df, price_cols, start_date, end_date,
    price_series, returns,
    annual_return, annual_volatility, drawdown, max_drawdown, down_days_pct,
    rolling_vol, vol_threshold, regime, regime_stats,
    stress_periods,
    last_price, mean_return, vol,
    bands,            \* one SimulationBand per finished horizon
    error,            \* the exception that ended the run, "" if none
    previous          \* what the run before this one simulated and produced

loadVars == <<df, price_cols>>
windowVars == <<start_date, end_date, price_series>>
metricVars == <<returns, annual_return, annual_volatility, drawdown, max_drawdown, down_days_pct>>
regimeVars == <<rolling_vol, vol_threshold, regime, regime_stats>>
simVars == <<last_price, mean_return, vol, bands>>
vars == <<pc, run, uploaded_file, rng, loadVars, windowVars, metricVars, regimeVars,
          stress_periods, simVars, error, previous>>

NoStats == [l \in {} |-> 0]

Unset ==
    /\ df = <<>> /\ price_cols = <<>>
    /\ start_date = 0 /\ end_date = 0 /\ price_series = <<>>
    /\ returns = <<>> /\ annual_return = NaN /\ annual_volatility = NaN
    /\ drawdown = <<>> /\ max_drawdown = NaN /\ down_days_pct = NaN
    /\ rolling_vol = <<>> /\ vol_threshold = NaN /\ regime = <<>>
    /\ regime_stats = NoStats
    /\ stress_periods = <<>>
    /\ last_price = NaN /\ mean_return = NaN /\ vol = NaN /\ bands = <<>>
    /\ error = ""

Init ==
    /\ pc = "upload"
    /\ run = 1
    /\ uploaded_file = <<>>
    /\ rng \in Seeds
    /\ previous = <<>>
    /\ Unset

\* lines 58-61: the script stops until a file is uploaded
Upload ==
    /\ pc = "upload"
    /\ \E f \in Files : uploaded_file' = f
    /\ pc' = "load"
    /\ UNCHANGED <<run, rng, loadVars, windowVars, metricVars, regimeVars,
                   stress_periods, simVars, error, previous>>

\* line 64 (lines 28-52)
LoadCsv ==
    /\ pc = "load"
    /\ LET r == load_csv(uploaded_file)
       IN  /\ df' = r.df
           /\ price_cols' = r.price_cols
           /\ error' = r.err
           /\ pc' = IF r.err = "" THEN "window" ELSE "failed"
    /\ UNCHANGED <<run, uploaded_file, rng, windowVars, metricVars, regimeVars,
                   stress_periods, simVars, previous>>

\* lines 67-89: date_input offers [min_date, max_date]; the window tried here
\* starts and ends on the first or the last day
SelectWindow ==
    /\ pc = "window"
    /\ \E s \in {min_date(df), max_date(df)}, e \in {min_date(df), max_date(df)} :
          /\ s <= e
          /\ start_date' = s
          /\ end_date' = e
          /\ df' = loc_window(df, s, e)
          /\ price_series' = price_series_of(loc_window(df, s, e), price_cols)
    /\ pc' = "metrics"
    /\ UNCHANGED <<run, uploaded_file, rng, price_cols, metricVars, regimeVars,
                   stress_periods, simVars, error, previous>>

\* lines 94-100
CoreRiskMetrics ==
    /\ pc = "metrics"
    /\ returns' = returns_of(price_series)
    /\ annual_return' = annual_return_of(returns_of(price_series))
    /\ annual_volatility' = annual_volatility_of(returns_of(price_series))
    /\ drawdown' = drawdown_of(price_series)
    /\ max_drawdown' = max_drawdown_of(drawdown_of(price_series))
    /\ down_days_pct' = down_days_pct_of(returns_of(price_series))
    /\ pc' = "regime"
    /\ UNCHANGED <<run, uploaded_file, rng, loadVars, windowVars, regimeVars,
                   stress_periods, simVars, error, previous>>

\* lines 105-109
RegimeAnalysis ==
    /\ pc = "regime"
    /\ LET rv == rolling_vol_of(returns, RollWindow)
           thr == FMedian(rv)
           reg == regime_of(rv, thr)
       IN  /\ rolling_vol' = rv
           /\ vol_threshold' = thr
           /\ regime' = reg
           /\ regime_stats' = regime_stats_of(returns, rv, reg)
    /\ pc' = "stress"
    /\ UNCHANGED <<run, uploaded_file, rng, loadVars, windowVars, metricVars,
                   stress_periods, simVars, error, previous>>

\* line 114
StressPeriods ==
    /\ pc = "stress"
    /\ stress_periods' = stress_periods_of(drawdown)
    /\ pc' = "simulate"
    /\ UNCHANGED <<run, uploaded_file, rng, loadVars, windowVars, metricVars,
                   regimeVars, simVars, error, previous>>

\* lines 179-182: iloc[-1] of an empty series raises IndexError
SimulationInputs ==
    /\ pc = "simulate"
    /\ IF Len(price_series) = 0
       THEN /\ error' = "IndexError"
            /\ pc' = "failed"
            /\ UNCHANGED <<last_price, mean_return, vol>>
       ELSE /\ last_price' = price_series[Len(price_series)].v
            /\ mean_return' = FMean(Vals(returns))
            /\ vol' = FStd(Vals(returns))
            /\ pc' = "horizon"
            /\ UNCHANGED error
    /\ UNCHANGED <<run, uploaded_file, rng, loadVars, windowVars, metricVars,
                   regimeVars, stress_periods, bands, previous>>

\* lines 191-201: one pass of the loop over forecast_horizons
SimulateHorizon ==
    /\ pc = "horizon"
    /\ LET days == forecast_horizons[Len(bands) + 1]
           paths == all_paths_of(last_price, mean_return, vol, days, NumSims, rng)
       IN  /\ bands' = Append(bands, band_of(paths, days))
           /\ rng' = RngAfter(rng, days * NumSims)
    /\ pc' = IF Len(bands) + 1 = Len(forecast_horizons) THEN "done" ELSE "horizon"
    /\ UNCHANGED <<run, uploaded_file, loadVars, windowVars, metricVars,
                   regimeVars, stress_periods, last_price, mean_return, vol,
                   error, previous>>

\* Streamlit runs the script again in the same process: every script variable
\* is rebuilt, the uploaded file and the np.random state are kept
Rerun ==
    /\ pc \in {"done", "failed"}
    /\ run < MaxRuns
    /\ run' = run + 1
    /\ pc' = "load"
    /\ previous' = <<[last_price |-> last_price, mean_return |-> mean_return,
                      vol |-> vol, bands |-> bands, finished |-> pc = "done"]>>
    /\ df' = <<>> /\ price_cols' = <<>>
    /\ start_date' = 0 /\ end_date' = 0 /\ price_series' = <<>>
    /\ returns' = <<>> /\ annual_return' = NaN /\ annual_volatility' = NaN
    /\ drawdown' = <<>> /\ max_drawdown' = NaN /\ down_days_pct' = NaN
    /\ rolling_vol' = <<>> /\ vol_threshold' = NaN /\ regime' = <<>>
    /\ regime_stats' = NoStats
    /\ stress_periods' = <<>>
    /\ last_price' = NaN /\ mean_return' = NaN /\ vol' = NaN /\ bands' = <<>>
    /\ error' = ""
    /\ UNCHANGED <<uploaded_file, rng>>

Next ==
    \/ Upload
    \/ LoadCsv
    \/ SelectWindow
    \/ CoreRiskMetrics
    \/ RegimeAnalysis
    \/ StressPeriods
    \/ SimulationInputs
    \/ SimulateHorizon
    \/ Rerun

Spec == Init /\ [][Next]_vars

\* ------------------------------------------------------------ where a run is
LoadFailed == pc = "failed" /\ error \in {"NoDateColumn", "NoPriceColumn"}
Loaded == pc \notin {"upload", "load"} /\ ~LoadFailed
Prepared == Loaded /\ pc # "window"
MetricsDone == Prepared /\ pc # "metrics"
RegimeDone == MetricsDone /\ pc # "regime"
StressDone == RegimeDone /\ pc # "stress"
Simulating == pc \in {"horizon", "done"}

\* a series as the data model describes it: at least 2 rows, on distinct days
\* in ascending order
WellFormedSeries ==
    /\ Len(price_series) >= 2
    /\ \A i \in 1..(Len(price_series) - 1) : price_series[i].ts < price_series[i + 1].ts
PositivePrices ==
    \A i \in 1..Len(price_series) : IsNum(price_series[i].v) /\ price_series[i].v.v > 0

\* ------------------------------------------------------------------- claims

\* C1: a prepared price series with fewer than 2 rows stops the run with an
\* InsufficientDataError at preparation; no returns, metrics, regimes or
\* simulations are ever computed from it.
C1_ShortSeriesNeverAnalysed ==
    MetricsDone => Len(price_series) >= 2

IsZero(a) == a = Zero
NonPositive(a) == (a.k = "num" /\ a.v <= 0) \/ a = NegInf

\* C2: for every price series the engine accepts (here: even one of at least
\* 2 rows on distinct days) every drawdown value is <= 0, it is exactly 0
\* wherever the price equals the running maximum, and so maxDrawdown <= 0.
C2_DrawdownNonPositive ==
    (MetricsDone /\ WellFormedSeries) =>
        /\ Len(drawdown) = Len(price_series)
        /\ \A i \in 1..Len(drawdown) :
              /\ NonPositive(drawdown[i].v)
              /\ price_series[i].v = cummax(Vals(price_series), i) => IsZero(drawdown[i].v)
        /\ Len(drawdown) > 0 => NonPositive(max_drawdown)

\* C3: a prepared price series of n >= 2 rows (here: even on distinct days)
\* gives exactly n - 1 returns, the one for row i being
\* price[i] / price[i-1] - 1; none is dropped or added.
C3_OneReturnPerStep ==
    (MetricsDone /\ WellFormedSeries) =>
        /\ Len(returns) = Len(price_series) - 1
        /\ \A i \in 1..Len(returns) :
              /\ i + 1 <= Len(price_series)
              /\ returns[i].ts = price_series[i + 1].ts
              /\ returns[i].v = FSub(FDiv(price_series[i + 1].v, price_series[i].v), One)

DefinedVol == {i \in 1..Len(rolling_vol) : ~IsNaN(rolling_vol[i])}
StatCount(l) == IF l \in DOMAIN regime_stats THEN regime_stats[l].count ELSE 0
Below(a, b) == a.k = "num" /\ b.k = "num" /\ a.v < b.v

\* C4: the RegimeStats counts of both labels sum to the number of returns with
\* a defined rolling volatility; a return before the window is full is counted
\* nowhere, every other one under exactly one label, High iff its rolling
\* volatility is strictly above the median of the defined ones.
C4_RegimeCounts ==
    RegimeDone =>
        /\ Len(rolling_vol) = Len(returns)
        /\ \A i \in 1..Len(rolling_vol) : i < RollWindow => IsNaN(rolling_vol[i])
        /\ DOMAIN regime_stats \subseteq {High, Low}
        /\ StatCount(High) + StatCount(Low) = Cardinality(DefinedVol)
        /\ StatCount(High) =
              Cardinality({i \in DefinedVol : Below(vol_threshold, rolling_vol[i])})
        /\ StatCount(Low) =
              Cardinality({i \in DefinedVol : ~Below(vol_threshold, rolling_vol[i])})
        /\ DefinedVol = {} => IsNaN(vol_threshold)
        /\ DefinedVol # {} =>
              /\ 2 * Cardinality({i \in DefinedVol : Below(rolling_vol[i], vol_threshold)})
                    <= Cardinality(DefinedVol)
              /\ 2 * Cardinality({i \in DefinedVol : Below(vol_threshold, rolling_vol[i])})
                    <= Cardinality(DefinedVol)

C4_Witness ==
    /\ RegimeDone
    /\ WellFormedSeries /\ PositivePrices
    /\ StatCount(High) >= 1
    /\ StatCount(Low) >= 1
    /\ \E i \in 1..Len(rolling_vol) : IsNaN(rolling_vol[i])

StrictlyBelowThreshold(a) == (a.k = "num" /\ a.v < StressThreshold.v) \/ a = NegInf
StressIndex == {i \in 1..Len(drawdown) : StrictlyBelowThreshold(drawdown[i].v)}
NthStress(j) ==
    CHOOSE i \in StressIndex : Cardinality({k \in StressIndex : k <= i}) = j

C6_RunsRepeat ==
    (/\ pc = "done"
     /\ previous # <<>>
     /\ previous[1].finished
     /\ WellFormedSeries /\ PositivePrices
     /\ previous[1].last_price = last_price
     /\ previous[1].mean_return = mean_return
     /\ previous[1].vol = vol)
    => bands = previous[1].bands

\* C7: for every horizon and day offset p5[t] <= p50[t] <= p95[t], and each of
\* p5, p50, p95 has horizon-many entries (here: even for a series of at least
\* 2 positive prices on distinct days).
C7_PercentilesOrdered ==
    (WellFormedSeries /\ PositivePrices) => \A h \in 1..Len(bands) :
        /\ Len(bands[h].p5) = forecast_horizons[h]
        /\ Len(bands[h].p50) = forecast_horizons[h]
        /\ Len(bands[h].p95) = forecast_horizons[h]
        /\ \A t \in 1..forecast_horizons[h] :
              /\ FLe(bands[h].p5[t], bands[h].p50[t])
              /\ FLe(bands[h].p50[t], bands[h].p95[t])

RngStates == 0..15

\* C8: with meanReturn = 0 and volatility = 0 every simulated path equals
\* lastPrice at every offset, whatever the generator draws, and so
\* p5 = p50 = p95 = lastPrice.
C8_FlatPaths ==
    (Simulating /\ mean_return = Zero /\ vol = Zero) =>
        /\ \A h \in 1..Len(forecast_horizons) : \A s \in RngStates :
              \A k \in 1..NumSims : \A d \in 1..forecast_horizons[h] :
                 all_paths_of(last_price, mean_return, vol,
                              forecast_horizons[h], NumSims, s)[k][d] = last_price
        /\ \A h \in 1..Len(bands) : \A t \in 1..forecast_horizons[h] :
              /\ bands[h].p5[t] = last_price
              /\ bands[h].p50[t] = last_price
              /\ bands[h].p95[t] = last_price

C8_Witness ==
    /\ pc = "done"
    /\ mean_return = Zero
    /\ vol = Zero
    /\ Len(bands) = Len(forecast_horizons)
    /\ IsNum(last_price) /\ last_price.v > 0

\* a column in which more than half of the rows parse as a date
MostlyDates(col) == 2 * NotNaCount(col) > Len(col)
FirstMostlyDates(file) ==
    IF \E c \in 1..Len(file) : MostlyDates(file[c])
    THEN CHOOSE c \in 1..Len(file) :
            MostlyDates(file[c]) /\ \A b \in 1..(c - 1) : ~MostlyDates(file[b])
    ELSE 0

\* C9: the date column is the first column, in the given order, in which more
\* than 50% of the rows parse as a date, unparseable cells notwithstanding;
\* loading fails with the no-date-column error exactly when there is none.
C9_FirstMostlyDateColumn ==
    pc \notin {"upload", "load"} =>
        /\ date_col(uploaded_file) = FirstMostlyDates(uploaded_file)
        /\ error = "NoDateColumn" => FirstMostlyDates(uploaded_file) = 0
        /\ FirstMostlyDates(uploaded_file) = 0 => LoadFailed

\* C10: the prepared price series has strictly increasing timestamps, whatever
\* the order of the rows and however many of them share a date.
C10_StrictlyIncreasing ==
    Prepared =>
        \A i \in 1..(Len(price_series) - 1) : price_series[i].ts < price_series[i + 1].ts

====
